---------------------------- MODULE Spec2Model ----------------------------
(***************************************************************************)
(* Training-data generator: the provider adapters of src/src/llm_providers *)
(* (Claude, OpenAI, Ollama), the earlier adapters kept under src/dont_use, *)
(* the tenacity retry wrapper around the Claude and OpenAI adapters, and   *)
(* the minimum pair count put into the prompt.                             *)
(*                                                                         *)
(* A Python str is a sequence of atoms.  An atom is one JSON lexeme        *)
(* ("{", ":", a whole string literal, null, a number), one white-space     *)
(* character (" " or "\n") or one run of prose characters.  str methods    *)
(* (strip, split, startswith, in) and json.loads are operators over these  *)
(* sequences.                                                              *)
(***************************************************************************)
EXTENDS Integers, Sequences, FiniteSets, TLC

(***************************************************************************)
(* Bounds of the model.                                                    *)
(***************************************************************************)
\* most lines of a model response
MaxLines == 3
\* most words of a source text
MaxWords == 2600
\* the requests one run of the application serves
MaxRequests == 2
\* the seconds the clock may advance
MaxClock == 1

(***************************************************************************)
(* Python str methods over atom sequences.                                 *)
(***************************************************************************)
IsSpace(c) == c \in {" ", "\n"}

RECURSIVE LStrip(_)
LStrip(s) ==
    IF s = <<>> THEN <<>>
    ELSE IF IsSpace(Head(s)) THEN LStrip(Tail(s))
    ELSE s

RECURSIVE RStrip(_)
RStrip(s) ==
    IF s = <<>> THEN <<>>
    ELSE IF IsSpace(s[Len(s)]) THEN RStrip(SubSeq(s, 1, Len(s) - 1))
    ELSE s

\* str.strip()
Strip(s) == RStrip(LStrip(s))

\* str.startswith(p)
StartsWith(s, p) == Len(s) >= Len(p) /\ SubSeq(s, 1, Len(p)) = p

\* str.endswith(p)
EndsWith(s, p) == Len(s) >= Len(p) /\ SubSeq(s, Len(s) - Len(p) + 1, Len(s)) = p

\* s[n:]
DropFirst(s, n) == SubSeq(s, n + 1, Len(s))

\* c in s, for a one-atom c
Contains(s, c) == \E i \in 1..Len(s) : s[i] = c

\* str.split(sep): the pieces between the non-overlapping occurrences of
\* sep, found left to right; the split of "" is [""].
RECURSIVE SplitFrom(_, _, _)
SplitFrom(s, sep, cur) ==
    IF s = <<>> THEN <<cur>>
    ELSE IF StartsWith(s, sep) THEN <<cur>> \o SplitFrom(DropFirst(s, Len(sep)), sep, <<>>)
    ELSE SplitFrom(Tail(s), sep, Append(cur, Head(s)))

Split(s, sep) == SplitFrom(s, sep, <<>>)

\* str.split(c, 1) of a string that holds c: <<before the first c, after it>>
RECURSIVE FirstIndex(_, _, _)
FirstIndex(s, c, i) ==
    IF i > Len(s) THEN 0
    ELSE IF s[i] = c THEN i
    ELSE FirstIndex(s, c, i + 1)

SplitOnce(s, c) ==
    LET i == FirstIndex(s, c, 1)
    IN  <<SubSeq(s, 1, i - 1), SubSeq(s, i + 1, Len(s))>>

(***************************************************************************)
(* json.loads.  The documents of the model are scalars, arrays of scalars  *)
(* and objects whose values are scalars; anything else is a decode error.  *)
(* A Python value is a record tagged by its type: None, str (s: the        *)
(* content), int, list (items), dict (d: a function from key to value).    *)
(***************************************************************************)
None == [t |-> "None"]

PyStr(s) == [t |-> "str", s |-> s]

KeyInstruction == <<"instruction">>
KeyResponse == <<"response">>

\* the string literals of the model and the str each decodes to
StrLits == {"\"instruction\"", "\"response\"", "\"q\"", "\"a\"", "\"q2\"", "\"a2\"", "\"\""}

LitContent(tok) ==
    CASE tok = "\"instruction\"" -> KeyInstruction
      [] tok = "\"response\"" -> KeyResponse
      [] tok = "\"q\"" -> <<"q">>
      [] tok = "\"a\"" -> <<"a">>
      [] tok = "\"q2\"" -> <<"q2">>
      [] tok = "\"a2\"" -> <<"a2">>
      [] tok = "\"\"" -> <<>>

IsScalarTok(tok) == tok \in StrLits \cup {"null", "7"}

ScalarValue(tok) ==
    IF tok \in StrLits THEN PyStr(LitContent(tok))
    ELSE IF tok = "null" THEN None
    ELSE [t |-> "int"]

\* white space between lexemes is insignificant
RECURSIVE NoWs(_)
NoWs(s) ==
    IF s = <<>> THEN <<>>
    ELSE IF IsSpace(Head(s)) THEN NoWs(Tail(s))
    ELSE <<Head(s)>> \o NoWs(Tail(s))

\* elements of an array: scalar ("," scalar)*
RECURSIVE IsElements(_)
IsElements(toks) ==
    \/ Len(toks) = 1 /\ IsScalarTok(toks[1])
    \/ /\ Len(toks) >= 3
       /\ IsScalarTok(toks[Len(toks)])
       /\ toks[Len(toks) - 1] = ","
       /\ IsElements(SubSeq(toks, 1, Len(toks) - 2))

RECURSIVE Elements(_)
Elements(toks) ==
    IF Len(toks) = 1 THEN <<ScalarValue(toks[1])>>
    ELSE Append(Elements(SubSeq(toks, 1, Len(toks) - 2)), ScalarValue(toks[Len(toks)]))

\* members of an object: string ":" scalar ("," string ":" scalar)*
RECURSIVE IsMembers(_)
IsMembers(toks) ==
    /\ Len(toks) >= 3
    /\ toks[Len(toks) - 2] \in StrLits
    /\ toks[Len(toks) - 1] = ":"
    /\ IsScalarTok(toks[Len(toks)])
    /\ \/ Len(toks) = 3
       \/ /\ Len(toks) >= 7
          /\ toks[Len(toks) - 3] = ","
          /\ IsMembers(SubSeq(toks, 1, Len(toks) - 4))

\* a repeated key keeps its last value
RECURSIVE Members(_)
Members(toks) ==
    LET n == Len(toks)
        last == (LitContent(toks[n - 2]) :> ScalarValue(toks[n]))
    IN  IF n = 3 THEN last ELSE last @@ Members(SubSeq(toks, 1, n - 4))

EmptyDict == [k \in {} |-> None]

DecodeError == [ok |-> FALSE]

Decoded(v) == [ok |-> TRUE, val |-> v]

JsonLoads(s) ==
    LET toks == NoWs(s)
        n == Len(toks)
        inner == SubSeq(toks, 2, n - 1)
    IN  IF n = 0 THEN DecodeError
        ELSE IF n = 1 THEN
            IF IsScalarTok(toks[1]) THEN Decoded(ScalarValue(toks[1])) ELSE DecodeError
        ELSE IF toks[1] = "[" /\ toks[n] = "]" THEN
            IF n = 2 THEN Decoded([t |-> "list", items |-> <<>>])
            ELSE IF IsElements(inner) THEN Decoded([t |-> "list", items |-> Elements(inner)])
            ELSE DecodeError
        ELSE IF toks[1] = "{" /\ toks[n] = "}" THEN
            IF n = 2 THEN Decoded([t |-> "dict", d |-> EmptyDict])
            ELSE IF IsMembers(inner) THEN Decoded([t |-> "dict", d |-> Members(inner)])
            ELSE DecodeError
        ELSE DecodeError

\* isinstance(v, dict)
IsDict(v) == v.t = "dict"

\* bool(v)
Truthy(v) ==
    CASE v.t = "None" -> FALSE
      [] v.t = "dict" -> DOMAIN v.d # {}
      [] v.t = "list" -> v.items # <<>>
      [] v.t = "str" -> v.s # <<>>
      [] OTHER -> TRUE

(***************************************************************************)
(* What a call or one attempt of it ends with.                             *)
(***************************************************************************)
Returned(records) == [kind |-> "return", records |-> records]

Raised(type) == [kind |-> "raise", type |-> type]

NoOutcome == [kind |-> "none"]

\* {'instruction': head, 'response': tail}
PairDict(head, tail) ==
    [t |-> "dict", d |-> (KeyInstruction :> PyStr(head)) @@ (KeyResponse :> PyStr(tail))]

(***************************************************************************)
(* The adapters of src/src/llm_providers.                                  *)
(***************************************************************************)
\* BaseLLMProvider._validate_json_response
ValidateJsonResponse(line) ==
    LET r == JsonLoads(line)
    IN  IF ~r.ok THEN None
        ELSE IF ~IsDict(r.val) THEN None
        ELSE IF KeyInstruction \notin DOMAIN r.val.d \/ KeyResponse \notin DOMAIN r.val.d THEN None
        ELSE r.val

\* the loop with jsonl_data.insert(0, data) for jsonl_data.append(data)
RECURSIVE CollectValidPrepend(_, _)
CollectValidPrepend(lines, jsonl_data) ==
    IF lines = <<>> THEN jsonl_data
    ELSE LET line == Strip(Head(lines))
             data == ValidateJsonResponse(line)
         IN  IF line # <<>> /\ Truthy(data)
             THEN CollectValidPrepend(Tail(lines), <<data>> \o jsonl_data)
             ELSE CollectValidPrepend(Tail(lines), jsonl_data)

\* for line in ...split('\n'): line = line.strip(); if line: if data :=
\* self._validate_json_response(line): jsonl_data.append(data)
RECURSIVE CollectValid(_, _)
CollectValid(lines, jsonl_data) ==
    IF lines = <<>> THEN jsonl_data
    ELSE LET line == Strip(Head(lines))
             data == ValidateJsonResponse(line)
         IN  IF line # <<>> /\ Truthy(data)
             THEN CollectValid(Tail(lines), Append(jsonl_data, data))
             ELSE CollectValid(Tail(lines), jsonl_data)

\* AnthropicProvider._clean_response_text: prefixes_to_remove
PrefixesToRemove ==
    << <<"Here are", " the training pairs", " in JSONL format", ":">>,
       <<"Here are", " the training pairs", ":">>,
       <<"Here are">>,
       <<"Training pairs", ":">> >>

RECURSIVE RemovePrefixes(_, _)
RemovePrefixes(clean_text, prefixes) ==
    IF prefixes = <<>> THEN clean_text
    ELSE IF StartsWith(clean_text, Head(prefixes))
         THEN RemovePrefixes(Strip(DropFirst(clean_text, Len(Head(prefixes)))), Tail(prefixes))
         ELSE RemovePrefixes(clean_text, Tail(prefixes))

CleanResponseText(response_text) == Strip(RemovePrefixes(response_text, PrefixesToRemove))

\* "if not jsonl_data: raise LLMProviderError(...)", caught by the adapter's
\* own "except Exception" and raised again as LLMProviderError
\* the adapter without "if not jsonl_data: raise"
ReturnEvenEmpty(jsonl_data) == Returned(jsonl_data)

ReturnOrRaise(jsonl_data) ==
    IF jsonl_data = <<>> THEN Raised("LLMProviderError") ELSE Returned(jsonl_data)

\* AnthropicProvider.generate_training_data, from the response text on
AnthropicParse(response_text) ==
    ReturnOrRaise(CollectValid(Split(CleanResponseText(response_text), <<"\n">>), <<>>))

\* OpenAIProvider.generate_training_data, from the message content on
OpenAIParse(content) ==
    ReturnOrRaise(CollectValid(Split(Strip(content), <<"\n">>), <<>>))

\* OllamaProvider.generate_training_data, from the message content on
OllamaParse(content) ==
    ReturnOrRaise(CollectValid(Split(content, <<"\n">>), <<>>))

(***************************************************************************)
(* The adapters of src/dont_use/training_data_generator.py.                *)
(***************************************************************************)
\* s holds sub as a contiguous run of atoms
IsSubstring(sub, s) ==
    \E i \in 1..(Len(s) - Len(sub) + 1) : SubSeq(s, i, i + Len(sub) - 1) = sub

\* key in obj: membership in a dict's keys, in a list's items, as a
\* substring of a str; a TypeError for an int or None
PyIn(key, obj) ==
    CASE obj.t = "dict" -> IF key \in DOMAIN obj.d THEN "yes" ELSE "no"
      [] obj.t = "list" -> IF \E i \in 1..Len(obj.items) : obj.items[i] = PyStr(key) THEN "yes" ELSE "no"
      [] obj.t = "str" -> IF IsSubstring(key, obj.s) THEN "yes" ELSE "no"
      [] OTHER -> "TypeError"

\* all(key in obj for key in ['instruction', 'response']), and
\* 'instruction' in obj and 'response' in obj
HasBothKeys(obj) ==
    LET first == PyIn(KeyInstruction, obj)
    IN  IF first = "yes" THEN PyIn(KeyResponse, obj) ELSE first

\* generate_with_claude: for line in text.strip().split('\n'):
\* if line.strip(): jsonl_data.append(json.loads(line))
RECURSIVE LegacyClaudeLoop(_, _)
LegacyClaudeLoop(lines, jsonl_data) ==
    IF lines = <<>> THEN Returned(jsonl_data)
    ELSE IF Strip(Head(lines)) = <<>> THEN LegacyClaudeLoop(Tail(lines), jsonl_data)
    ELSE LET r == JsonLoads(Head(lines))
         IN  IF ~r.ok THEN Raised("Exception")
             ELSE LegacyClaudeLoop(Tail(lines), Append(jsonl_data, r.val))

LegacyClaudeParse(text) == LegacyClaudeLoop(Split(Strip(text), <<"\n">>), <<>>)

\* the fallback of generate_with_openai and generate_with_ollama: split on
\* blank lines, split each piece that holds a colon at its first colon
RECURSIVE ColonSplit(_, _)
ColonSplit(pairs, jsonl_data) ==
    IF pairs = <<>> THEN jsonl_data
    ELSE IF Contains(Head(pairs), ":")
         THEN LET parts == SplitOnce(Head(pairs), ":")
              IN  ColonSplit(Tail(pairs),
                             Append(jsonl_data, PairDict(Strip(parts[1]), Strip(parts[2]))))
         ELSE ColonSplit(Tail(pairs), jsonl_data)

ColonSplitFallback(response_text) == ColonSplit(Split(response_text, <<"\n", "\n">>), <<>>)

\* generate_with_openai: the line-by-line parse.  A decode error skips the
\* line; a TypeError of "key in obj" is not caught by the loop.
RECURSIVE LegacyOpenAILoop(_, _)
LegacyOpenAILoop(lines, jsonl_data) ==
    IF lines = <<>> THEN Returned(jsonl_data)
    ELSE LET line == Strip(Head(lines))
             r == JsonLoads(line)
         IN  IF line = <<>> \/ ~r.ok THEN LegacyOpenAILoop(Tail(lines), jsonl_data)
             ELSE CASE HasBothKeys(r.val) = "yes" ->
                          LegacyOpenAILoop(Tail(lines), Append(jsonl_data, r.val))
                    [] HasBothKeys(r.val) = "no" ->
                          LegacyOpenAILoop(Tail(lines), jsonl_data)
                    [] OTHER -> Raised("TypeError")

\* generate_with_openai, from the message content on; every exception is
\* caught and raised again as Exception
LegacyOpenAIParse(content) ==
    LET response_text == Strip(content)
        strict == LegacyOpenAILoop(Split(response_text, <<"\n">>), <<>>)
        jsonl_data == IF strict.records = <<>> THEN ColonSplitFallback(response_text)
                      ELSE strict.records
    IN  IF strict.kind = "raise" THEN Raised("Exception")
        ELSE IF jsonl_data = <<>> THEN Raised("Exception")
        ELSE Returned(jsonl_data)

\* generate_with_ollama: the accumulation of an object wrapped over lines.
\* st is <<jsonl_data, current_json, in_json>>.
RECURSIVE LegacyOllamaLoop(_, _, _, _)
LegacyOllamaLoop(lines, jsonl_data, current_json, in_json) ==
    IF lines = <<>> THEN Returned(jsonl_data)
    ELSE LET line == Strip(Head(lines))
             joined == current_json \o line
             r == JsonLoads(joined)
         IN  IF line = <<>> THEN LegacyOllamaLoop(Tail(lines), jsonl_data, current_json, in_json)
             ELSE IF StartsWith(line, <<"{">>)
                  THEN LegacyOllamaLoop(Tail(lines), jsonl_data, line, TRUE)
             ELSE IF in_json /\ EndsWith(line, <<"}">>)
                  THEN IF ~r.ok THEN LegacyOllamaLoop(Tail(lines), jsonl_data, <<>>, FALSE)
                       ELSE CASE HasBothKeys(r.val) = "yes" ->
                                    LegacyOllamaLoop(Tail(lines), Append(jsonl_data, r.val), <<>>, FALSE)
                              [] HasBothKeys(r.val) = "no" ->
                                    LegacyOllamaLoop(Tail(lines), jsonl_data, <<>>, FALSE)
                              [] OTHER -> Raised("TypeError")
             ELSE IF in_json
                  THEN LegacyOllamaLoop(Tail(lines), jsonl_data, joined, TRUE)
             ELSE LegacyOllamaLoop(Tail(lines), jsonl_data, current_json, in_json)

\* generate_with_ollama, from the response text on: the list is returned
\* as it is, empty or not
LegacyOllamaParse(response_text) ==
    LET acc == LegacyOllamaLoop(Split(response_text, <<"\n">>), <<>>, <<>>, FALSE)
    IN  IF acc.kind = "raise" THEN Raised("Exception")
        ELSE IF acc.records = <<>> THEN Returned(ColonSplitFallback(response_text))
        ELSE Returned(acc.records)

(***************************************************************************)
(* The minimum pair count.  A source text is a sequence of chunks: 0 is a  *)
(* run of white space, k > 0 is k words with one space between each two;   *)
(* two word chunks in a row join their touching words into one.            *)
(***************************************************************************)
\* min_pairs = 5
MinPairs == 5
\* pairs_per_thousand = 4
PairsPerThousand == 4

\* len(text.split())
RECURSIVE WordCountFrom(_, _)
WordCountFrom(text, afterWord) ==
    IF text = <<>> THEN 0
    ELSE IF Head(text) = 0 THEN WordCountFrom(Tail(text), FALSE)
    ELSE Head(text) - (IF afterWord THEN 1 ELSE 0) + WordCountFrom(Tail(text), TRUE)

WordCount(text) == WordCountFrom(text, FALSE)

Max(a, b) == IF a >= b THEN a ELSE b

Min(a, b) == IF a <= b THEN a ELSE b

\* math.ceil((word_count / 1000) * pairs_per_thousand).  The float quotient
\* is exact when word_count is a multiple of 250 and is otherwise further
\* from an integer than its rounding error, so the ceiling is that of the
\* exact quotient.
CeilPairs(word_count) == (word_count * PairsPerThousand + 999) \div 1000

\* the count with min for max
AnthropicPairsCountMin(text) == Min(MinPairs, CeilPairs(WordCount(text)))

\* AnthropicProvider._calculate_pairs_count
AnthropicCalculatePairsCount(text) == Max(MinPairs, CeilPairs(WordCount(text)))

\* the count with int() for math.ceil
OpenAIPairsCountTruncated(text) ==
    Max(MinPairs, (WordCount(text) * PairsPerThousand) \div 1000)

\* OpenAIProvider._calculate_pairs_count
OpenAICalculatePairsCount(text) ==
    LET word_count == WordCount(text)
        recommended_pairs == Max(MinPairs, CeilPairs(word_count))
    IN  recommended_pairs

(***************************************************************************)
(* tenacity: @retry(stop=stop_after_attempt(3),                            *)
(*                  wait=wait_exponential(multiplier=1, min=4, max=10))    *)
(***************************************************************************)
StopAfterAttempt == 3
WaitMultiplier == 1
WaitMin == 4
WaitMax == 10

RECURSIVE Pow2(_)
Pow2(n) == IF n <= 0 THEN 1 ELSE 2 * Pow2(n - 1)

\* wait_exponential.__call__ after attempt attempt_number
WaitExponential(attempt_number) ==
    Max(Max(0, WaitMin), Min(WaitMultiplier * Pow2(attempt_number - 1), WaitMax))

\* stop_after_attempt.__call__
ShouldStop(attempt_number) == attempt_number >= StopAfterAttempt

(***************************************************************************)
(* The inputs of the model.                                                *)
(***************************************************************************)
RetryingAdapters == {"Claude", "OpenAI"}
CurrentAdapters == {"Claude", "OpenAI", "Ollama"}
LegacyAdapters == {"LegacyClaude", "LegacyOpenAI", "LegacyOllama"}
Adapters == CurrentAdapters \cup LegacyAdapters

\* what the network call of one attempt ends with
TransientFailures == {"timeout"}
PermanentFailures == {"auth", "bad_request"}
NetOutcomes == {"ok"} \cup TransientFailures \cup PermanentFailures

LineValid1 == <<"{", "\"instruction\"", ":", "\"q\"", ",", "\"response\"", ":", "\"a\"", "}">>
LineValid2 == <<" ", "{", "\"instruction\"", ":", " ", "\"q2\"", ",", "\"response\"", ":", "\"a2\"", "}", " ">>
LineMissingKey == <<"{", "\"instruction\"", ":", "\"q\"", "}">>
LineNullEmpty == <<"{", "\"instruction\"", ":", "null", ",", "\"response\"", ":", "\"\"", "}">>
LineNumber == <<"7">>
LineArray == <<"[", "\"instruction\"", ",", "\"response\"", "]">>
LineProse == <<"more">>
LinePreface == <<"Here are", " the training pairs", ":", " ", "more">>
LinePrefixed == <<"Here are", " ", "{", "\"instruction\"", ":", "\"q\"", ",", "\"response\"", ":", "\"a\"", "}">>
LineBlank == <<>>
LineOpen == <<"{", "\"instruction\"", ":", "\"q\"", ",">>
LineClose == <<"\"response\"", ":", "\"a\"", "}">>

Lines == {LineValid1, LineValid2, LineMissingKey, LineNullEmpty, LineNumber, LineArray,
          LineProse, LinePreface, LinePrefixed, LineBlank, LineOpen, LineClose}

\* "\n".join(lines)
RECURSIVE JoinLines(_)
JoinLines(lines) ==
    IF lines = <<>> THEN <<>>
    ELSE IF Len(lines) = 1 THEN lines[1]
    ELSE lines[1] \o <<"\n">> \o JoinLines(Tail(lines))

LineSeqs == UNION {[1..n -> Lines] : n \in 0..MaxLines}

\* the response texts a provider may send
Texts == {JoinLines(ls) : ls \in LineSeqs}

\* the source text of a call under Spec, where it reaches the adapters only
\* through min_pairs; SpecPairs has the others
SmallSources == {<<0, 1000, 0>>}

\* the source texts under SpecPairs: n words alone, inside white space,
\* after a chunk that joins its first word, and after a separate word
SourceTexts ==
    {<<>>, <<0>>}
    \cup {<<n>> : n \in 1..MaxWords}
    \cup {<<0, n, 0>> : n \in 1..MaxWords}
    \cup {<<1, n>> : n \in 1..MaxWords}
    \cup {<<1, 0, n>> : n \in 1..MaxWords}

(***************************************************************************)
(* src/src/config.py, src/src/text_processor.py and src/src/main.py: the   *)
(* environment, the input of a request and what generate_data returns.     *)
(***************************************************************************)
RequiredVars == {"ANTHROPIC_API_KEY", "OPENAI_API_KEY"}

\* what os.getenv gives for a variable after load_dotenv: None when it is
\* not set, the empty string, or a key
EnvValues == {None, PyStr(<<>>), PyStr(<<"sk-key">>)}

Envs == [RequiredVars -> EnvValues]

\* validate_env with "is None" for "not"
MissingVarsUnset(environ) == {var \in RequiredVars : environ[var] = None}

\* validate_env: missing_vars = [var for var in required_vars if not os.getenv(var)]
MissingVars(environ) == {var \in RequiredVars : ~Truthy(environ[var])}

\* self.providers
Providers == {"Claude", "OpenAI", "Ollama"}

\* the provider names a request may carry: the registered ones and another
ProviderNames == Providers \cup {"Gemini"}

\* text.strip() == '' for a source text
IsBlankSource(text) == \A i \in 1..Len(text) : text[i] = 0

\* what the bytes of a file are to pymupdf: not a PDF, or a PDF with the
\* text of its pages
Corrupt == [pdf |-> FALSE]
PdfOf(text) == [pdf |-> TRUE, text |-> text]

\* the files a pdf_file path may name
PdfStore ==
    ("scan.pdf" :> Corrupt) @@ ("blank.pdf" :> PdfOf(<<0>>)) @@ ("paper.pdf" :> PdfOf(<<0, 1000, 0>>))

Bytes(doc) == [t |-> "bytes", doc |-> doc]

\* pdf_file: None, an empty path, a path (to a file or to none), bytes
PdfFiles ==
    {None, PyStr(<<>>), PyStr(<<"gone.pdf">>), PyStr(<<"scan.pdf">>),
     PyStr(<<"blank.pdf">>), PyStr(<<"paper.pdf">>), Bytes(Corrupt), Bytes(PdfOf(<<0, 1000, 0>>))}

\* text_input: None, or a str
TextInputs == {None, PyStr(<<>>), PyStr(<<0>>), PyStr(<<0, 1000, 0>>)}

Value(text) == [kind |-> "return", value |-> text]

\* TextProcessor.extract_text_from_pdf: every exception becomes
\* TextProcessingError
ExtractTextFromPdf(pdf_bytes) ==
    IF ~pdf_bytes.doc.pdf THEN Raised("TextProcessingError")
    ELSE Value(pdf_bytes.doc.text)

\* TextProcessor.process_input: a path is opened and read first
ProcessInput(text_input, pdf_file) ==
    IF Truthy(pdf_file)
    THEN IF pdf_file.t = "str"
         THEN IF pdf_file.s[1] \in DOMAIN PdfStore
              THEN ExtractTextFromPdf(Bytes(PdfStore[pdf_file.s[1]]))
              ELSE Raised("FileNotFoundError")
         ELSE ExtractTextFromPdf(pdf_file)
    ELSE Value(text_input.s)

\* json.dumps of a str: the literal that decodes to it
DumpStr(str) == CHOOSE tok \in StrLits : LitContent(tok) = str

DumpValue(v) == IF v.t = "str" THEN DumpStr(v.s) ELSE "null"

\* json.dumps(item) of a record of the two keys, with the default
\* separators ", " and ": "
JsonDumps(item) ==
    <<"{", "\"instruction\"", ":", " ", DumpValue(item.d[KeyInstruction]), ",", " ",
      "\"response\"", ":", " ", DumpValue(item.d[KeyResponse]), "}">>

\* "\n".join(json.dumps(item) for item in jsonl_data)
JsonlOutput(jsonl_data) == JoinLines([i \in 1..Len(jsonl_data) |-> JsonDumps(jsonl_data[i])])

\* what generate_data returns: the text and the path of the file
Pair(text, path) == [text |-> text, path |-> path]

MsgNoInput == <<"Error", ": Please provide either text input or upload a PDF file.">>
MsgNoText == <<"Error", ": No valid text content found.">>
MsgInvalidProvider(provider) == <<"Error", ": Invalid provider selected: ", provider>>
MsgNoData == <<"Error", ": No training data was generated.">>
MsgProviderError(provider, e) == <<"Error", " with ", provider, ": ", e>>
MsgUnexpected(e) == <<"An unexpected error occurred", ": ", e>>

\* os.path.join(temp_dir, f"training_data_{timestamp}.jsonl"), timestamp
\* the time of the clock in whole seconds
FilePath(now) == PyStr(<<"/tmp/training_data_", now, ".jsonl">>)

\* open(file_path, 'w') and f.write(data): the file holds data; when the
\* write fails after the open, the file is left empty
WriteFile(fs, path, data) == [p \in DOMAIN fs \cup {path} |-> IF p = path THEN data ELSE fs[p]]

SaveOutcomes == {"ok", "open fails", "write fails"}

\* generate_wrapper: the pair of generate_data, the path None when falsy
GenerateWrapper(pair) == IF ~Truthy(pair.path) THEN Pair(pair.text, None) ELSE pair

(***************************************************************************)
(* One generate call on one adapter.                                       *)
(***************************************************************************)
VARIABLES
    pc,             \* "idle", "calling" (an attempt is due), "failed" (the
                    \* attempt raised, tenacity decides), "done"
    adapter,        \* the adapter called; "none" before the call
    source,         \* the source text of the call
    attempts,       \* attempts made so far (tenacity's attempt_number)
    netCalls,       \* network calls made so far
    lastNet,        \* what the network call of this attempt ended with
    response,       \* the response text this attempt received
    minPairs,       \* min_pairs as put into the prompt of this attempt
    attemptOutcome, \* what this attempt returned or raised
    slept,          \* the waits of tenacity between the attempts
    result,         \* what the caller of the adapter gets
    env,            \* the environment variables after load_dotenv
    phase,          \* "off", "crashed" (create_ui raised), "ready" (the UI
                    \* waits for a request), "busy" (generate_data waits for
                    \* the provider)
    request,        \* the arguments of the last call of generate_data
    returned,       \* the pairs generate_wrapper has returned, in order
    files,          \* the files of the temporary directory: path to content
    clock,          \* the time, in seconds
    lastWrite       \* the path the last request opened for writing, or None

callVars == <<pc, adapter, source, attempts, netCalls, lastNet, response,
              minPairs, attemptOutcome, slept, result>>

appVars == <<env, phase, request, returned, files, clock, lastWrite>>

vars == <<callVars, appVars>>

NoRequest == [text_input |-> None, pdf_file |-> None, provider |-> "none"]

\* the application before create_ui, in the environment environ
AppInit(environ) ==
    /\ env = environ
    /\ phase = "off"
    /\ request = NoRequest
    /\ returned = <<>>
    /\ files = <<>>
    /\ clock = 0
    /\ lastWrite = None

\* an environment with both keys
KeysSet == [var \in RequiredVars |-> PyStr(<<"sk-key">>)]

Init ==
    /\ pc = "idle"
    /\ adapter = "none"
    /\ source = <<>>
    /\ attempts = 0
    /\ netCalls = 0
    /\ lastNet = "none"
    /\ response = <<>>
    /\ minPairs = 0
    /\ attemptOutcome = NoOutcome
    /\ slept = <<>>
    /\ result = NoOutcome
    /\ AppInit(KeysSet)

\* provider_instance.generate_training_data(processed_text) is called
Generate(adapters, sources) ==
    /\ pc = "idle"
    /\ pc' = "calling"
    /\ \E a \in adapters, text \in sources : adapter' = a /\ source' = text
    /\ UNCHANGED <<attempts, netCalls, lastNet, response, minPairs,
                   attemptOutcome, slept, result>>
    /\ UNCHANGED appVars

\* the text a network call delivers: one of the replies when it succeeds
Delivered(net, replies) == IF net = "ok" THEN replies ELSE {<<>>}

\* the body of an adapter that tenacity wraps: a return ends the call, an
\* exception goes to tenacity
WrappedAttempt(net, text, pairs, outcome) ==
    /\ attempts' = attempts + 1
    /\ netCalls' = netCalls + 1
    /\ lastNet' = net
    /\ response' = text
    /\ minPairs' = pairs
    /\ attemptOutcome' = outcome
    /\ IF outcome.kind = "return"
       THEN pc' = "done" /\ result' = outcome
       ELSE pc' = "failed" /\ result' = NoOutcome
    /\ UNCHANGED <<adapter, source, slept>>
    /\ UNCHANGED appVars

\* the body of an adapter called directly: the caller gets what it returns
\* or raises
PlainAttempt(net, text, outcome) ==
    /\ attempts' = attempts + 1
    /\ netCalls' = netCalls + 1
    /\ lastNet' = net
    /\ response' = text
    /\ attemptOutcome' = outcome
    /\ pc' = "done"
    /\ result' = outcome
    /\ UNCHANGED <<adapter, source, minPairs, slept>>
    /\ UNCHANGED appVars

\* AnthropicProvider.generate_training_data: any exception of
\* client.messages.create is raised again as LLMProviderError
AnthropicAttempt(replies) ==
    /\ pc = "calling"
    /\ adapter = "Claude"
    /\ \E net \in NetOutcomes : \E text \in Delivered(net, replies) :
           WrappedAttempt(net, text, AnthropicCalculatePairsCount(source),
                          IF net = "ok" THEN AnthropicParse(text) ELSE Raised("LLMProviderError"))

\* OpenAIProvider.generate_training_data
OpenAIAttempt(replies) ==
    /\ pc = "calling"
    /\ adapter = "OpenAI"
    /\ \E net \in NetOutcomes : \E text \in Delivered(net, replies) :
           WrappedAttempt(net, text, OpenAICalculatePairsCount(source),
                          IF net = "ok" THEN OpenAIParse(text) ELSE Raised("LLMProviderError"))

\* OllamaProvider.generate_training_data: no retry decorator
OllamaAttemptOn(replies) ==
    /\ pc = "calling"
    /\ adapter = "Ollama"
    /\ \E net \in NetOutcomes : \E text \in Delivered(net, replies) :
           PlainAttempt(net, text,
                        IF net = "ok" THEN OllamaParse(text) ELSE Raised("LLMProviderError"))

OllamaAttempt == OllamaAttemptOn(Texts)

\* TrainingDataGenerator.generate_with_claude
LegacyClaudeCall ==
    /\ pc = "calling"
    /\ adapter = "LegacyClaude"
    /\ \E net \in NetOutcomes : \E text \in Delivered(net, Texts) :
           PlainAttempt(net, text,
                        IF net = "ok" THEN LegacyClaudeParse(text) ELSE Raised("Exception"))

\* TrainingDataGenerator.generate_with_openai
LegacyOpenAICall ==
    /\ pc = "calling"
    /\ adapter = "LegacyOpenAI"
    /\ \E net \in NetOutcomes : \E text \in Delivered(net, Texts) :
           PlainAttempt(net, text,
                        IF net = "ok" THEN LegacyOpenAIParse(text) ELSE Raised("Exception"))

\* TrainingDataGenerator.generate_with_ollama
LegacyOllamaCall ==
    /\ pc = "calling"
    /\ adapter = "LegacyOllama"
    /\ \E net \in NetOutcomes : \E text \in Delivered(net, Texts) :
           PlainAttempt(net, text,
                        IF net = "ok" THEN LegacyOllamaParse(text) ELSE Raised("Exception"))

\* tenacity after a raised attempt, the stop condition not met: sleep, then
\* call the body again
TenacityRetry ==
    /\ pc = "failed"
    /\ ~ShouldStop(attempts)
    /\ slept' = Append(slept, WaitExponential(attempts))
    /\ lastNet' = "none"
    /\ response' = <<>>
    /\ pc' = "calling"
    /\ UNCHANGED <<adapter, source, attempts, netCalls, minPairs, attemptOutcome, result>>
    /\ UNCHANGED appVars

\* tenacity after a raised attempt, the stop condition met: reraise is not
\* set, so RetryError is raised from the attempt's exception
TenacityStop ==
    /\ pc = "failed"
    /\ ShouldStop(attempts)
    /\ result' = Raised("RetryError")
    /\ pc' = "done"
    /\ UNCHANGED <<adapter, source, attempts, netCalls, lastNet, response,
                   minPairs, attemptOutcome, slept>>
    /\ UNCHANGED appVars

Next ==
    \/ Generate(Adapters, SmallSources)
    \/ AnthropicAttempt(Texts)
    \/ OpenAIAttempt(Texts)
    \/ OllamaAttempt
    \/ LegacyClaudeCall
    \/ LegacyOpenAICall
    \/ LegacyOllamaCall
    \/ TenacityRetry
    \/ TenacityStop

Spec == Init /\ [][Next]_vars

\* the response texts under SpecPairs
PairsReplies == {<<>>, LineValid1}

\* the first attempt of a call on the adapters that compute min_pairs
NextPairs ==
    \/ Generate(RetryingAdapters, SourceTexts)
    \/ AnthropicAttempt(PairsReplies)
    \/ OpenAIAttempt(PairsReplies)

SpecPairs == Init /\ [][NextPairs]_vars

(***************************************************************************)
(* The application of src/src/main.py: create_ui, then requests served one *)
(* after the other by generate_wrapper and generate_data.                  *)
(***************************************************************************)
\* create_ui: TrainingDataGenerator() builds Config(), whose validate_env
\* raises EnvironmentError; __init__ logs and raises it again
CreateUi ==
    /\ phase = "off"
    /\ phase' = IF MissingVars(env) # {} THEN "crashed" ELSE "ready"
    /\ UNCHANGED <<env, request, returned, files, clock, lastWrite>>
    /\ UNCHANGED callVars

Call(text) == [kind |-> "call", text |-> text]

\* generate_data with "if not processed_text" for "if not processed_text.strip()"
GenerateDataEntryNoStrip(text_input, pdf_file, provider) ==
    IF ~Truthy(text_input) /\ ~Truthy(pdf_file) THEN Value(Pair(MsgNoInput, None))
    ELSE LET processed_text == ProcessInput(text_input, pdf_file)
         IN  IF processed_text.kind = "raise"
             THEN Value(Pair(MsgUnexpected(processed_text.type), None))
             ELSE IF processed_text.value = <<>> THEN Value(Pair(MsgNoText, None))
             ELSE IF provider \notin Providers THEN Value(Pair(MsgInvalidProvider(provider), None))
             ELSE Call(processed_text.value)

\* generate_data up to the call of the provider: the pair it returns, or
\* the text it calls the provider with
GenerateDataEntry(text_input, pdf_file, provider) ==
    IF ~Truthy(text_input) /\ ~Truthy(pdf_file) THEN Value(Pair(MsgNoInput, None))
    ELSE LET processed_text == ProcessInput(text_input, pdf_file)
         IN  IF processed_text.kind = "raise"
             THEN Value(Pair(MsgUnexpected(processed_text.type), None))
             ELSE IF IsBlankSource(processed_text.value) THEN Value(Pair(MsgNoText, None))
             ELSE IF provider \notin Providers THEN Value(Pair(MsgInvalidProvider(provider), None))
             ELSE Call(processed_text.value)

\* _save_jsonl_file: the path it returns and the files it leaves
SaveJsonlFile(data, now, fs, save) ==
    LET file_path == FilePath(now)
    IN  CASE save = "ok" -> [path |-> file_path, files |-> WriteFile(fs, file_path, data), opened |-> file_path]
          [] save = "open fails" -> [path |-> None, files |-> fs, opened |-> None]
          [] save = "write fails" -> [path |-> None, files |-> WriteFile(fs, file_path, <<>>), opened |-> file_path]

\* generate_data returning str(e) alone for a provider error
GenerateDataExitBareMessage(provider, outcome, now, fs, save) ==
    IF outcome.kind = "raise"
    THEN [pair |-> Pair(<<outcome.type>>, None), files |-> fs, opened |-> None]
    ELSE IF outcome.records = <<>>
    THEN [pair |-> Pair(MsgNoData, None), files |-> fs, opened |-> None]
    ELSE LET jsonl_output == JsonlOutput(outcome.records)
             saved == SaveJsonlFile(jsonl_output, now, fs, save)
         IN  [pair |-> Pair(jsonl_output, saved.path), files |-> saved.files, opened |-> saved.opened]

\* generate_data returning an error message when the file was not saved
GenerateDataExitSaveFatal(provider, outcome, now, fs, save) ==
    IF outcome.kind = "raise"
    THEN [pair |-> Pair(MsgProviderError(provider, outcome.type), None), files |-> fs, opened |-> None]
    ELSE IF outcome.records = <<>>
    THEN [pair |-> Pair(MsgNoData, None), files |-> fs, opened |-> None]
    ELSE LET jsonl_output == JsonlOutput(outcome.records)
             saved == SaveJsonlFile(jsonl_output, now, fs, save)
         IN  IF saved.path = None
             THEN [pair |-> Pair(MsgProviderError(provider, "OSError"), None), files |-> saved.files, opened |-> saved.opened]
             ELSE [pair |-> Pair(jsonl_output, saved.path), files |-> saved.files, opened |-> saved.opened]

\* generate_data from the return of the provider on
GenerateDataExit(provider, outcome, now, fs, save) ==
    IF outcome.kind = "raise"
    THEN [pair |-> Pair(MsgProviderError(provider, outcome.type), None), files |-> fs, opened |-> None]
    ELSE IF outcome.records = <<>>
    THEN [pair |-> Pair(MsgNoData, None), files |-> fs, opened |-> None]
    ELSE LET jsonl_output == JsonlOutput(outcome.records)
             saved == SaveJsonlFile(jsonl_output, now, fs, save)
         IN  [pair |-> Pair(jsonl_output, saved.path), files |-> saved.files, opened |-> saved.opened]

\* generate_wrapper is called with a request: generate_data returns at once
\* or calls the provider
Request ==
    /\ phase = "ready"
    /\ Len(returned) < MaxRequests
    /\ \E text_input \in TextInputs, pdf_file \in PdfFiles, provider \in ProviderNames :
           LET entry == GenerateDataEntry(text_input, pdf_file, provider)
           IN  /\ request' = [text_input |-> text_input, pdf_file |-> pdf_file, provider |-> provider]
               /\ IF entry.kind = "return"
                  THEN /\ returned' = Append(returned, GenerateWrapper(entry.value))
                       /\ phase' = "ready"
                       /\ pc' = "idle"
                       /\ adapter' = "none"
                       /\ source' = <<>>
                  ELSE /\ returned' = returned
                       /\ phase' = "busy"
                       /\ pc' = "calling"
                       /\ adapter' = provider
                       /\ source' = entry.text
    /\ attempts' = 0
    /\ netCalls' = 0
    /\ lastNet' = "none"
    /\ response' = <<>>
    /\ minPairs' = 0
    /\ attemptOutcome' = NoOutcome
    /\ slept' = <<>>
    /\ result' = NoOutcome
    /\ lastWrite' = None
    /\ UNCHANGED <<env, files, clock>>

\* the provider has returned or raised: generate_data saves and returns
Respond ==
    /\ phase = "busy"
    /\ pc = "done"
    /\ \E save \in SaveOutcomes :
           LET exit == GenerateDataExit(request.provider, result, clock, files, save)
           IN  /\ returned' = Append(returned, GenerateWrapper(exit.pair))
               /\ files' = exit.files
               /\ lastWrite' = exit.opened
    /\ phase' = "ready"
    /\ UNCHANGED <<env, request, clock>>
    /\ UNCHANGED callVars

\* a second passes
Tick ==
    /\ phase \in {"ready", "busy"}
    /\ clock < MaxClock
    /\ clock' = clock + 1
    /\ UNCHANGED <<env, phase, request, returned, files, lastWrite>>
    /\ UNCHANGED callVars

\* the response texts under SpecApp
AppReplies == {<<>>, LineValid1, JoinLines(<<LineValid2, LineValid1>>)}

InitApp ==
    /\ Init!1 /\ Init!2 /\ Init!3 /\ Init!4 /\ Init!5 /\ Init!6
    /\ Init!7 /\ Init!8 /\ Init!9 /\ Init!10 /\ Init!11
    /\ \E environ \in Envs : AppInit(environ)

NextApp ==
    \/ CreateUi
    \/ Request
    \/ AnthropicAttempt(AppReplies)
    \/ OpenAIAttempt(AppReplies)
    \/ OllamaAttemptOn(AppReplies)
    \/ TenacityRetry
    \/ TenacityStop
    \/ Respond
    \/ Tick

SpecApp == InitApp /\ [][NextApp]_vars

(***************************************************************************)
(* What the claims speak of.  The lines of a response text are its pieces  *)
(* between line breaks; a valid line is one of the library's objects that  *)
(* hold both keys, and its record is written out here, not parsed.         *)
(***************************************************************************)
ValidLines == {Strip(LineValid1), Strip(LineValid2), Strip(LineNullEmpty)}

RecordOf(line) ==
    CASE line = Strip(LineValid1) -> PairDict(<<"q">>, <<"a">>)
      [] line = Strip(LineValid2) -> PairDict(<<"q2">>, <<"a2">>)
      [] line = Strip(LineNullEmpty) ->
             [t |-> "dict", d |-> (KeyInstruction :> None) @@ (KeyResponse :> PyStr(<<>>))]

\* the lines of a text that are not blank, white space cut off both ends
RECURSIVE NonBlank(_)
NonBlank(lines) ==
    IF lines = <<>> THEN <<>>
    ELSE IF Strip(Head(lines)) = <<>> THEN NonBlank(Tail(lines))
    ELSE <<Strip(Head(lines))>> \o NonBlank(Tail(lines))

TextLines(text) == NonBlank(Split(text, <<"\n">>))

IsValidLine(line) == line \in ValidLines

\* the records of the valid lines of a text, in the order of the lines
ExpectedRecords(text) ==
    LET valid == SelectSeq(TextLines(text), IsValidLine)
    IN  [i \in 1..Len(valid) |-> RecordOf(valid[i])]

\* at least one line, and every line that is not blank is a valid line
WellFormedJsonl(text) ==
    LET lines == TextLines(text)
    IN  lines # <<>> /\ \A i \in 1..Len(lines) : IsValidLine(lines[i])

\* an attempt has received this response text
Received == lastNet = "ok" /\ pc \in {"failed", "done"}

(***************************************************************************)
(* C1.  For every response text that is well-formed JSONL, the record list *)
(* an adapter of src/src/llm_providers returns has exactly one record per  *)
(* line, in the order of the lines: the attempt that received the text     *)
(* ends the call by returning those records.                               *)
(***************************************************************************)
C1_OneRecordPerLine ==
    (Received /\ adapter \in CurrentAdapters /\ WellFormedJsonl(response))
        => (pc = "done" /\ result = Returned(ExpectedRecords(response)))

\* a call has returned, for a text of three lines, the records of its first
\* and last line, which differ
C1_Witness ==
    /\ Received
    /\ adapter \in CurrentAdapters
    /\ WellFormedJsonl(response)
    /\ pc = "done"
    /\ result.kind = "return"
    /\ Len(result.records) = 3
    /\ result.records[1] # result.records[3]

(***************************************************************************)
(* C2.  A malformed line never makes normalization fail: for every         *)
(* response text with at least one valid line, the adapter returns exactly *)
(* the records of the valid lines, in their order, and skips prose lines,  *)
(* unparseable lines and objects that miss a key.  Stated of the adapters  *)
(* of src/src/llm_providers and of generate_with_claude.                   *)
(***************************************************************************)
HasValidLine(text) ==
    \E i \in 1..Len(TextLines(text)) : IsValidLine(TextLines(text)[i])

C2_MalformedLinesSkipped ==
    (Received /\ adapter \in CurrentAdapters \cup {"LegacyClaude"} /\ HasValidLine(response))
        => (pc = "done" /\ result = Returned(ExpectedRecords(response)))

(***************************************************************************)
(* C3.  Normalizing the empty string, or a text with no JSON object and no *)
(* colon, fails with a provider error on every adapter: the call does not  *)
(* return a list, empty or not.  The provider error of the adapters of     *)
(* src/src/llm_providers is LLMProviderError; the earlier adapters raise   *)
(* Exception.                                                              *)
(***************************************************************************)
NoStructure(text) == ~Contains(text, "{") /\ ~Contains(text, ":")

ProviderErrorOf(a) ==
    IF a \in CurrentAdapters THEN Raised("LLMProviderError") ELSE Raised("Exception")

C3_NoParseableDataFails ==
    (pc = "done" /\ lastNet = "ok" /\ NoStructure(response))
        => result = ProviderErrorOf(adapter)

(***************************************************************************)
(* C4.  A line that is valid JSON but not an object is always dropped: in  *)
(* a text of valid lines and such lines, the adapter returns the records   *)
(* of the valid lines and nothing else, and does not fail.  Stated of the  *)
(* adapters that parse line by line: those of src/src/llm_providers and    *)
(* generate_with_openai.                                                   *)
(***************************************************************************)
NonObjectLines == {LineNumber, LineArray}

ValidAndNonObjectOnly(text) ==
    LET lines == TextLines(text)
    IN  /\ \A i \in 1..Len(lines) : lines[i] \in ValidLines \cup NonObjectLines
        /\ \E i \in 1..Len(lines) : lines[i] \in ValidLines
        /\ \E i \in 1..Len(lines) : lines[i] \in NonObjectLines

C4_NonObjectDropped ==
    (Received /\ adapter \in CurrentAdapters \cup {"LegacyOpenAI"} /\ ValidAndNonObjectOnly(response))
        => (pc = "done" /\ result = Returned(ExpectedRecords(response)))

(***************************************************************************)
(* C5.  Every record an adapter returns has both the instruction and the   *)
(* response field present, not null and a non-empty string.  Stated of the *)
(* adapters of src/src/llm_providers and of generate_with_openai.          *)
(***************************************************************************)
IsNonEmptyStr(v) == v.t = "str" /\ v.s # <<>>

IsTrainingPair(r) ==
    /\ IsDict(r)
    /\ KeyInstruction \in DOMAIN r.d
    /\ KeyResponse \in DOMAIN r.d
    /\ IsNonEmptyStr(r.d[KeyInstruction])
    /\ IsNonEmptyStr(r.d[KeyResponse])

C5_FieldsNonEmptyStrings ==
    (pc = "done" /\ adapter \in CurrentAdapters \cup {"LegacyOpenAI"} /\ result.kind = "return")
        => \A i \in 1..Len(result.records) : IsTrainingPair(result.records[i])

(***************************************************************************)
(* The word count of a source text, counted without splitting: the words   *)
(* of its chunks, less one for each two word chunks that touch.            *)
(***************************************************************************)
RECURSIVE SumChunks(_)
SumChunks(text) == IF text = <<>> THEN 0 ELSE Head(text) + SumChunks(Tail(text))

Touching(text) == Cardinality({i \in 1..(Len(text) - 1) : text[i] > 0 /\ text[i + 1] > 0})

Words(text) == SumChunks(text) - Touching(text)

\* an attempt of the call has built its prompt
Prompted == attempts >= 1 /\ adapter \in RetryingAdapters

(***************************************************************************)
(* C6.  For every source text the minimum pair count put into the prompt   *)
(* is max(5, ceil(4 * word_count / 1000)): it is at least 5, it is at      *)
(* least 4 * word_count / 1000, and no smaller number is both.  The value  *)
(* does not depend on which of the Claude and OpenAI adapters computes it. *)
(***************************************************************************)
C6_MinPairsFormula ==
    Prompted =>
        /\ minPairs >= 5
        /\ 1000 * minPairs >= 4 * Words(source)
        /\ minPairs = 5 \/ 1000 * (minPairs - 1) < 4 * Words(source)

\* a prompt built by the OpenAI adapter for a text whose quotient is not a
\* whole number and lies above 5: the count is rounded up
C6_Witness ==
    /\ Prompted
    /\ adapter = "OpenAI"
    /\ Words(source) = 1251
    /\ minPairs = 6

(***************************************************************************)
(* C7.  As claimed: min_pairs does not decrease when the word count grows, *)
(* min_pairs(0 words) = 5, min_pairs(1000 words) = 9 and                   *)
(* min_pairs(2500 words) = 15.                                             *)
(***************************************************************************)
\* min_pairs of the adapter of this call for a text of n words
MinPairsOfWords(n) ==
    LET text == IF n = 0 THEN <<>> ELSE <<n>>
    IN  IF adapter = "Claude" THEN AnthropicCalculatePairsCount(text)
        ELSE OpenAICalculatePairsCount(text)

\* one word fewer never gives more pairs
NonDecreasing ==
    Prompted /\ Words(source) > 0 => MinPairsOfWords(Words(source) - 1) <= minPairs

C7_AsClaimed ==
    /\ NonDecreasing
    /\ Prompted /\ Words(source) = 0 => minPairs = 5
    /\ Prompted /\ Words(source) = 1000 => minPairs = 9
    /\ Prompted /\ Words(source) = 2500 => minPairs = 15

(***************************************************************************)
(* C7, amended.  min_pairs does not decrease when the word count grows,    *)
(* min_pairs(0 words) = 5, min_pairs(1000 words) = 5 and                   *)
(* min_pairs(2500 words) = 10.                                             *)
(***************************************************************************)
C7_Amended ==
    /\ NonDecreasing
    /\ Prompted /\ Words(source) = 0 => minPairs = 5
    /\ Prompted /\ Words(source) = 1000 => minPairs = 5
    /\ Prompted /\ Words(source) = 2500 => minPairs = 10

\* a prompt built for a text of 2500 words
C7_Witness ==
    /\ Prompted
    /\ Words(source) = 2500
    /\ minPairs = 10

(***************************************************************************)
(* C8.  On each of the Claude, OpenAI and Ollama adapters one generate     *)
(* call never makes more than 3 attempts, and a transient failure of an    *)
(* attempt is followed by another attempt as long as fewer than 3 have     *)
(* been made: a call that ends with the error of a transient failure has   *)
(* made 3 attempts.                                                        *)
(***************************************************************************)
EndedOnTransient ==
    pc = "done" /\ result.kind = "raise" /\ lastNet \in TransientFailures

C8_RetriedUpToThree ==
    adapter \in CurrentAdapters =>
        /\ attempts <= 3
        /\ EndedOnTransient => attempts = 3

(***************************************************************************)
(* C9.  An authentication failure or a malformed-request failure of an     *)
(* attempt is not retried: the step after such an attempt ends the call    *)
(* with an error, with no further network call and no backoff wait.        *)
(***************************************************************************)
C9_PermanentNotRetried ==
    [][(pc = "failed" /\ lastNet \in PermanentFailures)
          => (pc' = "done" /\ result'.kind = "raise" /\ netCalls' = netCalls /\ slept' = slept)]_vars

(***************************************************************************)
(* C10.  When every allowed attempt of a generate call has failed, the     *)
(* error the caller of the adapter receives is LLMProviderError.           *)
(***************************************************************************)
C10_ProviderErrorAfterRetries ==
    (adapter \in CurrentAdapters /\ pc = "done" /\ result.kind = "raise")
        => result = Raised("LLMProviderError")

(***************************************************************************)
(* What the claims speak of in a request: the pair returned for it and the *)
(* ways it can fail, written out over the inputs.                          *)
(***************************************************************************)
\* generate_wrapper has returned for the request in "request"
Served == phase = "ready" /\ returned # <<>>

Last == returned[Len(returned)]

NoPdf(req) == req.pdf_file \in {None, PyStr(<<>>)}

NoInput(req) == NoPdf(req) /\ req.text_input \in {None, PyStr(<<>>)}

\* the path names no file, or the bytes are no PDF
PdfUnusable(req) ==
    req.pdf_file \in {PyStr(<<"gone.pdf">>), PyStr(<<"scan.pdf">>), Bytes(Corrupt)}

\* the text of the PDF, or with no PDF the text typed, is white space
EmptyText(req) ==
    \/ req.pdf_file = PyStr(<<"blank.pdf">>)
    \/ NoPdf(req) /\ req.text_input = PyStr(<<0>>)

UnknownProvider(req) == req.provider \notin {"Claude", "OpenAI", "Ollama"}

ProviderFailed == pc = "done" /\ (result.kind = "raise" \/ result = Returned(<<>>))

RequestFailed ==
    /\ Served
    /\ \/ NoInput(request) \/ PdfUnusable(request) \/ EmptyText(request)
       \/ UnknownProvider(request) \/ ProviderFailed

(***************************************************************************)
(* C11.  As claimed: for every failure of a request (no input, empty text, *)
(* unreadable or unextractable PDF, unknown provider, provider error,      *)
(* empty result) generate_data returns a pair whose text begins with       *)
(* "Error" and whose path is None.                                         *)
(***************************************************************************)
C11_AsClaimed ==
    RequestFailed => (Last.path = None /\ Head(Last.text) = "Error")

(***************************************************************************)
(* C11, amended.  For every failure of a request generate_data returns a   *)
(* pair whose path is None and whose text is an error message: it begins   *)
(* with "An unexpected error occurred" when the PDF is unreadable or       *)
(* unextractable, and with "Error" for every other failure.                *)
(***************************************************************************)
C11_Amended ==
    RequestFailed =>
        /\ Last.path = None
        /\ Head(Last.text) = IF PdfUnusable(request) THEN "An unexpected error occurred"
                             ELSE "Error"

\* the second request named a path with no file, after a first request
\* whose provider call failed
C11_Witness ==
    /\ Served
    /\ Len(returned) = 2
    /\ request.pdf_file = PyStr(<<"gone.pdf">>)
    /\ Last = Pair(MsgUnexpected("FileNotFoundError"), None)
    /\ returned[1].text = MsgProviderError("OpenAI", "RetryError")

(***************************************************************************)
(* C12.  When ANTHROPIC_API_KEY or OPENAI_API_KEY is missing or empty at   *)
(* startup, the construction of the generator fails: no UI comes up and no *)
(* request is ever processed, whichever provider it would have named.      *)
(***************************************************************************)
CredentialMissing ==
    \E var \in {"ANTHROPIC_API_KEY", "OPENAI_API_KEY"} : env[var] \in {None, PyStr(<<>>)}

C12_MissingCredentialFatal ==
    CredentialMissing =>
        /\ phase \in {"off", "crashed"}
        /\ request = NoRequest
        /\ returned = <<>>
        /\ pc = "idle"
        /\ netCalls = 0

\* startup has failed with the Anthropic key set and the OpenAI key empty
C12_Witness ==
    /\ phase = "crashed"
    /\ env["ANTHROPIC_API_KEY"] = PyStr(<<"sk-key">>)
    /\ env["OPENAI_API_KEY"] = PyStr(<<>>)

(***************************************************************************)
(* C13.  When the provider returned records but the file could not be      *)
(* saved, generate_data returns the full JSONL text of the records with    *)
(* None as the path, not an error message.                                 *)
(***************************************************************************)
\* the open failed, or the write after it left the file empty
SaveFailed == lastWrite = None \/ files[lastWrite] = <<>>

Generated == Served /\ pc = "done" /\ result.kind = "return" /\ result.records # <<>>

\* the text read back line by line
ReadBack(text) ==
    LET lines == Split(text, <<"\n">>)
    IN  [i \in 1..Len(lines) |-> JsonLoads(lines[i]).val]

C13_SaveFailureNonFatal ==
    (Generated /\ SaveFailed) =>
        /\ Last.path = None
        /\ Head(Last.text) # "Error"
        /\ ReadBack(Last.text) = result.records

\* the write of a text of two records failed after the file was opened
C13_Witness ==
    /\ Generated
    /\ Len(result.records) = 2
    /\ lastWrite # None
    /\ files[lastWrite] = <<>>
    /\ Last.path = None
    /\ Len(Split(Last.text, <<"\n">>)) = 2

(***************************************************************************)
(* C14.  Every successful request is saved to a file of its own: the paths *)
(* returned for any two requests differ, and the file at a returned path   *)
(* holds the JSONL text returned with it.                                  *)
(***************************************************************************)
C14_OwnFilePerRequest ==
    \A i, j \in 1..Len(returned) :
        returned[i].path # None =>
            /\ files[returned[i].path] = returned[i].text
            /\ (i # j => returned[j].path # returned[i].path)

(***************************************************************************)
(* C15.  For every response text in which no line is a record but which    *)
(* holds a valid object wrapped over two lines, the adapter returns that   *)
(* object as a record; an accumulation that is open when another line      *)
(* starting with "{" arrives is dropped and begun again from that line.    *)
(* Stated of generate_with_ollama and of OllamaProvider.                   *)
(***************************************************************************)
\* the places where the opening line of the object is followed by its
\* closing line
WrappedAt(text) ==
    {i \in 1..(Len(TextLines(text)) - 1) :
        TextLines(text)[i] = LineOpen /\ TextLines(text)[i + 1] = LineClose}

\* the records of the wrapped objects of a text of at most MaxLines lines
WrappedRecords(text) ==
    [i \in 1..Cardinality(WrappedAt(text)) |-> PairDict(<<"q">>, <<"a">>)]

C15_WrappedObjectRecovered ==
    (pc = "done" /\ lastNet = "ok" /\ adapter \in {"LegacyOllama", "Ollama"}
        /\ ~HasValidLine(response) /\ WrappedAt(response) # {})
        => result = Returned(WrappedRecords(response))

(***************************************************************************)
(* C16.  For every response text of prose only, the adapter returns one    *)
(* record for each paragraph (the pieces between blank lines) that holds a *)
(* colon, in the order of the paragraphs: its instruction is the trimmed   *)
(* text before the first colon, its response the trimmed text after it.    *)
(* Stated of generate_with_openai, generate_with_ollama and OpenAIProvider.*)
(***************************************************************************)
ProseLines == {LineProse, LinePreface}

\* every line is prose or blank, and a colon occurs
ProseWithColon(text) ==
    /\ \A i \in 1..Len(TextLines(text)) : TextLines(text)[i] \in ProseLines
    /\ Contains(text, ":")

HasColon(paragraph) == Contains(paragraph, ":")

ColonRecords(text) ==
    LET with == SelectSeq(Split(text, <<"\n", "\n">>), HasColon)
    IN  [i \in 1..Len(with) |->
            PairDict(Strip(SplitOnce(with[i], ":")[1]), Strip(SplitOnce(with[i], ":")[2]))]

C16_ColonSplitFallback ==
    (pc = "done" /\ lastNet = "ok" /\ adapter \in {"LegacyOpenAI", "LegacyOllama", "OpenAI"}
        /\ ProseWithColon(response))
        => result = Returned(ColonRecords(response))

(***************************************************************************)
(* C17.  The tiers run in the order strict line parse, multi-line          *)
(* accumulation, colon split, and a later tier runs only when every        *)
(* earlier one produced no record: the records returned are those of the   *)
(* first tier that produced any.  Stated of generate_with_openai and       *)
(* generate_with_ollama, for texts without lines that are JSON but not     *)
(* objects.                                                                *)
(***************************************************************************)
NoNonObjectLine(text) ==
    \A i \in 1..Len(TextLines(text)) : TextLines(text)[i] \notin NonObjectLines

FirstTierWithRecords(text) ==
    IF ExpectedRecords(text) # <<>> THEN ExpectedRecords(text)
    ELSE IF WrappedRecords(text) # <<>> THEN WrappedRecords(text)
    ELSE ColonRecords(text)

C17_TiersInOrder ==
    (pc = "done" /\ lastNet = "ok" /\ adapter \in {"LegacyOpenAI", "LegacyOllama"}
        /\ NoNonObjectLine(response) /\ result.kind = "return")
        => result.records = FirstTierWithRecords(response)

(***************************************************************************)
(* C18.  No provider call is made and no file is written unless the input  *)
(* of the request has passed validation: when neither text nor PDF is      *)
(* given, when the resolved text is white space only, or when the provider *)
(* name is not registered, generate_data returns an error string and the   *)
(* request makes no network call.                                          *)
(***************************************************************************)
ValidationFails(req) == NoInput(req) \/ EmptyText(req) \/ UnknownProvider(req)

IsErrorMessage(text) == Head(text) \in {"Error", "An unexpected error occurred"}

C18_ValidationBeforeCall ==
    /\ (Served /\ ValidationFails(request)) =>
           /\ IsErrorMessage(Last.text)
           /\ Last.path = None
           /\ netCalls = 0
           /\ lastWrite = None
    /\ (netCalls > 0 \/ lastWrite # None) => ~ValidationFails(request)

\* after a request that was served with a file, a request of white space
\* for a registered provider was turned down
C18_Witness ==
    /\ Served
    /\ Len(returned) = 2
    /\ returned[1].path # None
    /\ request = [text_input |-> PyStr(<<0>>), pdf_file |-> None, provider |-> "Claude"]
    /\ Last = Pair(MsgNoText, None)
    /\ netCalls = 0
    /\ files # <<>>

(***************************************************************************)
(* C19.  On the Claude and OpenAI adapters a response that was received    *)
(* but holds no record is handled like a failed attempt: the call does not *)
(* end on it before 3 attempts, each with its network call, were made.     *)
(***************************************************************************)
\* no line of the text holds a valid object
NoRecordIn(text) ==
    \A i \in 1..Len(TextLines(text)) :
        \A v \in ValidLines : ~IsSubstring(v, TextLines(text)[i])

C19_EmptyResponseRetried ==
    (adapter \in RetryingAdapters /\ Received /\ NoRecordIn(response))
        => \/ pc = "failed" /\ attempts <= 3
           \/ pc = "done" /\ result.kind = "raise" /\ attempts = 3 /\ netCalls = 3

\* a Claude call ended after its third network call brought prose
C19_Witness ==
    /\ adapter = "Claude"
    /\ pc = "done"
    /\ lastNet = "ok"
    /\ response = LineProse
    /\ netCalls = 3
    /\ slept = <<4, 4>>
    /\ result.kind = "raise"

=============================================================================
